---- MODULE Spec2Model ----
(***************************************************************************)
(* Endpoint wrappers of the generated REST clients: Gists                  *)
(* (github/src/gists.rs) and Users (ramp/src/users.rs), together with the  *)
(* shared Client they call.  Strings are sequences of one-character         *)
(* strings, so URLs are built and inspected character by character.        *)
(***************************************************************************)
EXTENDS Integers, Sequences, FiniteSets, TLC

VARIABLES pc, call, result

vars == <<pc, call, result>>

(* ------------------------------ bounds -------------------------------- *)

\* longest identifier / query value handed to a wrapper
MaxIdLen == 2
\* most pages a terminating server serves for one collection
MaxServerPages == 2

(* ------------------------------ strings ------------------------------- *)

\* characters an identifier argument is drawn from: one plain character and
\* the reserved characters '/', '?', '#' and space
Alphabet == {"a", "/", "?", "#", " "}

SeqsUpTo(S, n) == UNION {[1..k -> S] : k \in 0..n}

\* &str values of gist_id, sha, username
IdValues == SeqsUpTo(Alphabet, MaxIdLen)

\* &str values of start, department_id, location_id: the wrappers insert
\* them unencoded, and the values here hold no query delimiter '&' or '='
StrValues == SeqsUpTo({"x", "?"}, MaxIdLen)

\* i64 values of comment_id, page, per_page
CommentIdValues == {7, -12}
PageValues == {1, 1000}
PerPageValues == {30, -5}

\* f64 values of page_size, as whole part and tenths
PageSizeValues == {[whole |-> 2, tenths |-> 0], [whole |-> 1000, tenths |-> 0],
                   [whole |-> 2, tenths |-> 5]}

\* chrono::DateTime<Utc> values of since (whole seconds)
SinceValues == {[year |-> 2021, month |-> 3, day |-> 4, hour |-> 5, min |-> 6, sec |-> 7],
                [year |-> 1999, month |-> 12, day |-> 31, hour |-> 23, min |-> 59, sec |-> 58],
                [year |-> 10000, month |-> 1, day |-> 1, hour |-> 0, min |-> 0, sec |-> 0]}

\* request structures handed to the body-carrying wrappers
BodyValues == {"req1", "req2"}

DigitChar(d) == CASE d = 0 -> "0" [] d = 1 -> "1" [] d = 2 -> "2" [] d = 3 -> "3"
                  [] d = 4 -> "4" [] d = 5 -> "5" [] d = 6 -> "6" [] d = 7 -> "7"
                  [] d = 8 -> "8" [] d = 9 -> "9"

RECURSIVE Digits(_)
\* decimal digits of a natural number, most significant first
Digits(n) == IF n < 10 THEN <<DigitChar(n)>>
             ELSE Digits(n \div 10) \o <<DigitChar(n % 10)>>

\* format!("{}", i) and i.to_string() for an i64
FormatInt(i) == IF i < 0 THEN <<"-">> \o Digits(0 - i) ELSE Digits(i)

\* format!("{}", x) for an f64 with at most one fractional digit
FormatF64(x) == IF x.tenths = 0 THEN Digits(x.whole)
                ELSE Digits(x.whole) \o <<".">> \o Digits(x.tenths)

\* {:02} and {:04} of chrono's date and time formatting
Pad2(n) == IF n < 10 THEN <<"0">> \o Digits(n) ELSE Digits(n)
Pad4(n) == IF n < 10 THEN <<"0","0","0">> \o Digits(n)
           ELSE IF n < 100 THEN <<"0","0">> \o Digits(n)
           ELSE IF n < 1000 THEN <<"0">> \o Digits(n)
           ELSE Digits(n)

\* the year of chrono's date formatting: four digits for 0..=9999, otherwise
\* {:+05}, an explicit sign and at least four digits
FormatYear(y) == IF y >= 0 /\ y <= 9999 THEN Pad4(y)
                 ELSE IF y < 0 THEN <<"-">> \o Pad4(0 - y)
                 ELSE <<"+">> \o Digits(y)

\* format!("{}", since): Display of chrono::DateTime<Utc> writes the naive
\* date, a space, the naive time, a space and the offset name "UTC"
FormatDateTime(t) == FormatYear(t.year) \o <<"-">> \o Pad2(t.month) \o <<"-">> \o Pad2(t.day)
                     \o <<" ">> \o Pad2(t.hour) \o <<":">> \o Pad2(t.min) \o <<":">> \o Pad2(t.sec)
                     \o <<" ","U","T","C">>

\* progenitor_support::encode_path on one character
PercentEncodeChar(ch) == CASE ch = "/" -> <<"%","2","F">>
                           [] ch = "?" -> <<"%","3","F">>
                           [] ch = "#" -> <<"%","2","3">>
                           [] ch = " " -> <<"%","2","0">>
                           [] OTHER -> <<ch>>

RECURSIVE encode_path(_)
\* progenitor_support::encode_path: percent-encodes one path segment
encode_path(s) == IF s = <<>> THEN <<>>
                  ELSE PercentEncodeChar(Head(s)) \o encode_path(Tail(s))

RECURSIVE JoinArgs(_, _)
\* for (i, n) in query_args.iter().enumerate(): '&' before every element but the first
JoinArgs(query_args, i) ==
    IF i > Len(query_args) THEN <<>>
    ELSE (IF i > 1 THEN <<"&">> ELSE <<>>) \o query_args[i] \o JoinArgs(query_args, i + 1)

(* --------------------- URLs of github/src/gists.rs -------------------- *)

list_url(since, per_page, page) ==
    <<"/","g","i","s","t","s","?","p","a","g","e","=">> \o FormatInt(page) \o <<"&","p","e","r","_","p","a","g","e","=">> \o FormatInt(per_page)
    \o <<"&","s","i","n","c","e","=">> \o FormatDateTime(since)

create_url == <<"/","g","i","s","t","s">>

list_public_url(since, per_page, page) ==
    <<"/","g","i","s","t","s","/","p","u","b","l","i","c","?","p","a","g","e","=">> \o FormatInt(page) \o <<"&","p","e","r","_","p","a","g","e","=">> \o FormatInt(per_page)
    \o <<"&","s","i","n","c","e","=">> \o FormatDateTime(since)

list_starred_url(since, per_page, page) ==
    <<"/","g","i","s","t","s","/","s","t","a","r","r","e","d","?","p","a","g","e","=">> \o FormatInt(page) \o <<"&","p","e","r","_","p","a","g","e","=">> \o FormatInt(per_page)
    \o <<"&","s","i","n","c","e","=">> \o FormatDateTime(since)

\* get, delete and update format the same "/gists/{}"
gist_url(gist_id) == <<"/","g","i","s","t","s","/">> \o encode_path(gist_id)

list_comments_url(gist_id, per_page, page) ==
    <<"/","g","i","s","t","s","/">> \o encode_path(gist_id) \o <<"/","c","o","m","m","e","n","t","s","?","p","a","g","e","=">> \o FormatInt(page)
    \o <<"&","p","e","r","_","p","a","g","e","=">> \o FormatInt(per_page)

create_comment_url(gist_id) == <<"/","g","i","s","t","s","/">> \o encode_path(gist_id) \o <<"/","c","o","m","m","e","n","t","s">>

\* get_comment, delete_comment and update_comment format the same
\* "/gists/{}/comments/{}"
comment_url(gist_id, comment_id) ==
    <<"/","g","i","s","t","s","/">> \o encode_path(gist_id) \o <<"/","c","o","m","m","e","n","t","s","/">>
    \o encode_path(FormatInt(comment_id))

list_commits_url(gist_id, per_page, page) ==
    <<"/","g","i","s","t","s","/">> \o encode_path(gist_id) \o <<"/","c","o","m","m","i","t","s","?","p","a","g","e","=">> \o FormatInt(page)
    \o <<"&","p","e","r","_","p","a","g","e","=">> \o FormatInt(per_page)

list_forks_url(gist_id, per_page, page) ==
    <<"/","g","i","s","t","s","/">> \o encode_path(gist_id) \o <<"/","f","o","r","k","s","?","p","a","g","e","=">> \o FormatInt(page)
    \o <<"&","p","e","r","_","p","a","g","e","=">> \o FormatInt(per_page)

fork_url(gist_id) == <<"/","g","i","s","t","s","/">> \o encode_path(gist_id) \o <<"/","f","o","r","k","s">>

\* check_is_starred, star and unstar format the same "/gists/{}/star"
star_url(gist_id) == <<"/","g","i","s","t","s","/">> \o encode_path(gist_id) \o <<"/","s","t","a","r">>

\* a plausible slip: the second segment substituted without encode_path
get_revision_url_raw_sha(gist_id, sha) ==
    <<"/","g","i","s","t","s","/">> \o encode_path(gist_id) \o <<"/">> \o sha

get_revision_url(gist_id, sha) ==
    <<"/","g","i","s","t","s","/">> \o encode_path(gist_id) \o <<"/">> \o encode_path(sha)

list_for_user_url(username, since, per_page, page) ==
    <<"/","u","s","e","r","s","/">> \o encode_path(username) \o <<"/","g","i","s","t","s","?","p","a","g","e","=">> \o FormatInt(page)
    \o <<"&","p","e","r","_","p","a","g","e","=">> \o FormatInt(per_page) \o <<"&","s","i","n","c","e","=">> \o FormatDateTime(since)

(* ---------------------- URLs of ramp/src/users.rs --------------------- *)

\* get_users_user_id, delete_users_id and patch_users_id
users_id_url == <<"/","u","s","e","r","s","/","<","i","d",">">>

\* a plausible slip: the is_empty guard of start dropped
get_users_query_args_no_guard(start, page_size, department_id, location_id) ==
    (IF department_id # <<>> THEN <<<<"d","e","p","a","r","t","m","e","n","t","_","i","d","=">> \o department_id>> ELSE <<>>)
    \o (IF location_id # <<>> THEN <<<<"l","o","c","a","t","i","o","n","_","i","d","=">> \o location_id>> ELSE <<>>)
    \o <<<<"p","a","g","e","_","s","i","z","e","=">> \o FormatF64(page_size)>>
    \o <<<<"s","t","a","r","t","=">> \o start>>

\* a plausible slip: start pushed before page_size
get_users_query_args_start_first(start, page_size, department_id, location_id) ==
    (IF department_id # <<>> THEN <<<<"d","e","p","a","r","t","m","e","n","t","_","i","d","=">> \o department_id>> ELSE <<>>)
    \o (IF location_id # <<>> THEN <<<<"l","o","c","a","t","i","o","n","_","i","d","=">> \o location_id>> ELSE <<>>)
    \o (IF start # <<>> THEN <<<<"s","t","a","r","t","=">> \o start>> ELSE <<>>)
    \o <<<<"p","a","g","e","_","s","i","z","e","=">> \o FormatF64(page_size)>>

\* a plausible slip: page_size pushed only together with start
get_users_query_args_page_size_with_start(start, page_size, department_id, location_id) ==
    (IF department_id # <<>> THEN <<<<"d","e","p","a","r","t","m","e","n","t","_","i","d","=">> \o department_id>> ELSE <<>>)
    \o (IF location_id # <<>> THEN <<<<"l","o","c","a","t","i","o","n","_","i","d","=">> \o location_id>> ELSE <<>>)
    \o (IF start # <<>>
        THEN <<<<"p","a","g","e","_","s","i","z","e","=">> \o FormatF64(page_size), <<"s","t","a","r","t","=">> \o start>>
        ELSE <<>>)

\* the query_args vector get_users fills
get_users_query_args(start, page_size, department_id, location_id) ==
    (IF department_id # <<>> THEN <<<<"d","e","p","a","r","t","m","e","n","t","_","i","d","=">> \o department_id>> ELSE <<>>)
    \o (IF location_id # <<>> THEN <<<<"l","o","c","a","t","i","o","n","_","i","d","=">> \o location_id>> ELSE <<>>)
    \o <<<<"p","a","g","e","_","s","i","z","e","=">> \o FormatF64(page_size)>>
    \o (IF start # <<>> THEN <<<<"s","t","a","r","t","=">> \o start>> ELSE <<>>)

get_users_url(start, page_size, department_id, location_id) ==
    <<"/","u","s","e","r","s","?">> \o JoinArgs(get_users_query_args(start, page_size, department_id, location_id), 1)

\* the query_args vector get_all_users fills
get_all_users_query_args(department_id, location_id) ==
    (IF department_id # <<>> THEN <<<<"d","e","p","a","r","t","m","e","n","t","_","i","d","=">> \o department_id>> ELSE <<>>)
    \o (IF location_id # <<>> THEN <<<<"l","o","c","a","t","i","o","n","_","i","d","=">> \o location_id>> ELSE <<>>)

get_all_users_url(department_id, location_id) ==
    <<"/","u","s","e","r","s","?">> \o JoinArgs(get_all_users_query_args(department_id, location_id), 1)

post_users_deferred_url == <<"/","u","s","e","r","s","/","d","e","f","e","r","r","e","d">>

get_users_deferred_status_id_url == <<"/","u","s","e","r","s","/","d","e","f","e","r","r","e","d","/","s","t","a","t","u","s","/","<","i","d",">">>

(* ------------------------------- state -------------------------------- *)

\* independent callers holding the same Gists / Users value
Callers == {"c1"}

GistsListWrappers == {"Gists::list", "Gists::list_public", "Gists::list_starred",
                      "Gists::list_comments", "Gists::list_commits", "Gists::list_forks",
                      "Gists::list_for_user"}

\* wrappers that delegate to get_all_pages
PagedWrappers == GistsListWrappers \cup {"Users::get_all_users"}

\* failures the client reports
ErrKinds == {"TransportError", "HttpError", "DecodeError", "Cancelled"}

\* Option<reqwest::Body>: None, or Some(bytes)
NoBody == [some |-> FALSE, bytes |-> <<>>]
SomeBody(bytes) == [some |-> TRUE, bytes |-> bytes]

\* serde_json::to_vec(body): a Result, Ok with the JSON text for the request
\* structures of BodyValues
to_vec(b) == [ok |-> TRUE, bytes |-> <<"{", b, "}">>]

\* Result values: Ok(val) (meta: the pagination metadata of an envelope),
\* Err(err), or the task aborted by a panic
Ok(val, meta) == [kind |-> "Ok", val |-> val, meta |-> meta, err |-> ""]
Err(e) == [kind |-> "Err", val |-> <<>>, meta |-> "", err |-> e]
Panicked == [kind |-> "Panic", val |-> <<>>, meta |-> "", err |-> ""]
NoResult == [kind |-> "None", val |-> <<>>, meta |-> "", err |-> ""]

NoArgs == [gist_id |-> <<>>, comment_id |-> 0, sha |-> <<>>, username |-> <<>>,
           since |-> [year |-> 0, month |-> 0, day |-> 0, hour |-> 0, min |-> 0, sec |-> 0],
           per_page |-> 0, page |-> 0, start |-> <<>>,
           page_size |-> [whole |-> 0, tenths |-> 0],
           department_id |-> <<>>, location_id |-> <<>>, body |-> ""]

NoCall == [w |-> "", args |-> NoArgs, verb |-> "", url |-> <<>>, body |-> NoBody,
           srv |-> 1, requests |-> <<>>, acc |-> <<>>, outcome |-> NoResult]

Init == /\ pc = [c \in Callers |-> "idle"]
        /\ call = [c \in Callers |-> NoCall]
        /\ result = [c \in Callers |-> NoResult]

(* ------------------------- the remote servers ------------------------- *)

\* a server serves srv pages of a collection; 0 stands for a server that
\* sends a continuation indicator on every page
Servers == 0..MaxServerPages

HasNext(srv, k) == srv = 0 \/ k < srv

\* the items of page k: two items on a page that has a successor, one on the last
PageItems(srv, k) == IF HasNext(srv, k) THEN <<2 * k - 1, 2 * k>> ELSE <<2 * k - 1>>

RECURSIVE AllItems(_, _)
\* the items of pages 1..k in page order
AllItems(srv, k) == IF k = 0 THEN <<>> ELSE AllItems(srv, k - 1) \o PageItems(srv, k)

\* what a successful single exchange decodes to, by wrapper: the first page
\* of a collection, the GetUsersResponse envelope, or one resource
Responses(cl) ==
    IF cl.w \in PagedWrappers
    THEN {Ok(PageItems(cl.srv, 1), "")}
    ELSE IF cl.w = "Users::get_users"
    THEN {Ok(d, m) : d \in {<<>>, <<1, 2>>, <<2, 1>>}, m \in {"", "next"}}
    ELSE IF cl.verb = "delete" \/ cl.w \in {"Gists::check_is_starred", "Gists::star",
                                            "Users::patch_users_id"}
    THEN {Ok(<<>>, "")}
    ELSE {Ok(<<100>>, "")}

(* ------------------------------ wrappers ------------------------------ *)

\* a plausible slip: .unwrap_or_default() on the client's result
WrapperReturnDefault(w, r) == IF r.kind = "Err" THEN Ok(<<>>, "") ELSE r

\* what the wrapper returns for the client's result r: get_users unwraps it
\* and returns resp.data, every other wrapper returns it unchanged
WrapperReturn(w, r) ==
    IF w = "Users::get_users"
    THEN IF r.kind = "Err" THEN Panicked ELSE Ok(r.val, "")
    ELSE r

\* the wrapper w, called with args, hands url and body to the client's verb,
\* which issues its first request; requests lists the pages requested so far
Invoke(c, w, verb, url, body, args, srv) ==
    /\ pc' = [pc EXCEPT ![c] = "sent"]
    /\ call' = [call EXCEPT ![c] = [w |-> w, args |-> args, verb |-> verb, url |-> url,
                                    body |-> body, srv |-> srv, requests |-> <<1>>,
                                    acc |-> <<>>, outcome |-> NoResult]]
    /\ result' = [result EXCEPT ![c] = NoResult]

\* the wrapper panics before it calls the client: its url is built, but no
\* request is handed over and no value is returned
UnwrapPanic(c, w, url, args) ==
    /\ pc' = [pc EXCEPT ![c] = "done"]
    /\ call' = [call EXCEPT ![c] = [w |-> w, args |-> args, verb |-> "", url |-> url,
                                    body |-> NoBody, srv |-> 1, requests |-> <<>>,
                                    acc |-> <<>>, outcome |-> NoResult]]
    /\ result' = [result EXCEPT ![c] = Panicked]

\* Some(reqwest::Body::from(serde_json::to_vec(body).unwrap())): the unwrap
\* of an Ok yields the bytes of the body; the request structures of
\* BodyValues all serialize, so the Err side of the unwrap is never taken
InvokeWithBody(c, w, verb, url, serialized, args) ==
    IF serialized.ok
    THEN Invoke(c, w, verb, url, SomeBody(serialized.bytes), args, 1)
    ELSE UnwrapPanic(c, w, url, args)

\* a plausible slip: the list wrapper calls get, which fetches one page
Gists_list_single_get(c) ==
    /\ pc[c] = "idle"
    /\ \E since \in SinceValues, per_page \in PerPageValues, page \in PageValues, srv \in Servers :
           Invoke(c, "Gists::list", "get", list_url(since, per_page, page), NoBody,
                  [NoArgs EXCEPT !.since = since, !.per_page = per_page, !.page = page], srv)

Gists_list(c) ==
    /\ pc[c] = "idle"
    /\ \E since \in SinceValues, per_page \in PerPageValues, page \in PageValues, srv \in Servers :
           Invoke(c, "Gists::list", "get_all_pages", list_url(since, per_page, page), NoBody,
                  [NoArgs EXCEPT !.since = since, !.per_page = per_page, !.page = page], srv)

Gists_create(c) ==
    /\ pc[c] = "idle"
    /\ \E b \in BodyValues :
           InvokeWithBody(c, "Gists::create", "post", create_url, to_vec(b),
                  [NoArgs EXCEPT !.body = b])

Gists_list_public(c) ==
    /\ pc[c] = "idle"
    /\ \E since \in SinceValues, per_page \in PerPageValues, page \in PageValues, srv \in Servers :
           Invoke(c, "Gists::list_public", "get_all_pages",
                  list_public_url(since, per_page, page), NoBody,
                  [NoArgs EXCEPT !.since = since, !.per_page = per_page, !.page = page], srv)

Gists_list_starred(c) ==
    /\ pc[c] = "idle"
    /\ \E since \in SinceValues, per_page \in PerPageValues, page \in PageValues, srv \in Servers :
           Invoke(c, "Gists::list_starred", "get_all_pages",
                  list_starred_url(since, per_page, page), NoBody,
                  [NoArgs EXCEPT !.since = since, !.per_page = per_page, !.page = page], srv)

Gists_get(c) ==
    /\ pc[c] = "idle"
    /\ \E gist_id \in IdValues :
           Invoke(c, "Gists::get", "get", gist_url(gist_id), NoBody,
                  [NoArgs EXCEPT !.gist_id = gist_id], 1)

Gists_delete(c) ==
    /\ pc[c] = "idle"
    /\ \E gist_id \in IdValues :
           Invoke(c, "Gists::delete", "delete", gist_url(gist_id), NoBody,
                  [NoArgs EXCEPT !.gist_id = gist_id], 1)

Gists_update(c) ==
    /\ pc[c] = "idle"
    /\ \E gist_id \in IdValues, b \in BodyValues :
           InvokeWithBody(c, "Gists::update", "patch", gist_url(gist_id), to_vec(b),
                  [NoArgs EXCEPT !.gist_id = gist_id, !.body = b])

Gists_list_comments(c) ==
    /\ pc[c] = "idle"
    /\ \E gist_id \in IdValues, per_page \in PerPageValues, page \in PageValues, srv \in Servers :
           Invoke(c, "Gists::list_comments", "get_all_pages",
                  list_comments_url(gist_id, per_page, page), NoBody,
                  [NoArgs EXCEPT !.gist_id = gist_id, !.per_page = per_page, !.page = page], srv)

Gists_create_comment(c) ==
    /\ pc[c] = "idle"
    /\ \E gist_id \in IdValues, b \in BodyValues :
           InvokeWithBody(c, "Gists::create_comment", "post", create_comment_url(gist_id),
                  to_vec(b), [NoArgs EXCEPT !.gist_id = gist_id, !.body = b])

Gists_get_comment(c) ==
    /\ pc[c] = "idle"
    /\ \E gist_id \in IdValues, comment_id \in CommentIdValues :
           Invoke(c, "Gists::get_comment", "get", comment_url(gist_id, comment_id), NoBody,
                  [NoArgs EXCEPT !.gist_id = gist_id, !.comment_id = comment_id], 1)

Gists_delete_comment(c) ==
    /\ pc[c] = "idle"
    /\ \E gist_id \in IdValues, comment_id \in CommentIdValues :
           Invoke(c, "Gists::delete_comment", "delete", comment_url(gist_id, comment_id), NoBody,
                  [NoArgs EXCEPT !.gist_id = gist_id, !.comment_id = comment_id], 1)

Gists_update_comment(c) ==
    /\ pc[c] = "idle"
    /\ \E gist_id \in IdValues, comment_id \in CommentIdValues, b \in BodyValues :
           InvokeWithBody(c, "Gists::update_comment", "patch", comment_url(gist_id, comment_id),
                  to_vec(b),
                  [NoArgs EXCEPT !.gist_id = gist_id, !.comment_id = comment_id, !.body = b])

Gists_list_commits(c) ==
    /\ pc[c] = "idle"
    /\ \E gist_id \in IdValues, per_page \in PerPageValues, page \in PageValues, srv \in Servers :
           Invoke(c, "Gists::list_commits", "get_all_pages",
                  list_commits_url(gist_id, per_page, page), NoBody,
                  [NoArgs EXCEPT !.gist_id = gist_id, !.per_page = per_page, !.page = page], srv)

Gists_list_forks(c) ==
    /\ pc[c] = "idle"
    /\ \E gist_id \in IdValues, per_page \in PerPageValues, page \in PageValues, srv \in Servers :
           Invoke(c, "Gists::list_forks", "get_all_pages",
                  list_forks_url(gist_id, per_page, page), NoBody,
                  [NoArgs EXCEPT !.gist_id = gist_id, !.per_page = per_page, !.page = page], srv)

Gists_fork(c) ==
    /\ pc[c] = "idle"
    /\ \E gist_id \in IdValues :
           Invoke(c, "Gists::fork", "post", fork_url(gist_id), NoBody,
                  [NoArgs EXCEPT !.gist_id = gist_id], 1)

Gists_check_is_starred(c) ==
    /\ pc[c] = "idle"
    /\ \E gist_id \in IdValues :
           Invoke(c, "Gists::check_is_starred", "get", star_url(gist_id), NoBody,
                  [NoArgs EXCEPT !.gist_id = gist_id], 1)

Gists_star(c) ==
    /\ pc[c] = "idle"
    /\ \E gist_id \in IdValues :
           Invoke(c, "Gists::star", "put", star_url(gist_id), NoBody,
                  [NoArgs EXCEPT !.gist_id = gist_id], 1)

Gists_unstar(c) ==
    /\ pc[c] = "idle"
    /\ \E gist_id \in IdValues :
           Invoke(c, "Gists::unstar", "delete", star_url(gist_id), NoBody,
                  [NoArgs EXCEPT !.gist_id = gist_id], 1)

Gists_get_revision(c) ==
    /\ pc[c] = "idle"
    /\ \E gist_id \in IdValues, sha \in IdValues :
           Invoke(c, "Gists::get_revision", "get", get_revision_url(gist_id, sha), NoBody,
                  [NoArgs EXCEPT !.gist_id = gist_id, !.sha = sha], 1)

Gists_list_for_user(c) ==
    /\ pc[c] = "idle"
    /\ \E username \in IdValues, since \in SinceValues, per_page \in PerPageValues,
          page \in PageValues, srv \in Servers :
           Invoke(c, "Gists::list_for_user", "get_all_pages",
                  list_for_user_url(username, since, per_page, page), NoBody,
                  [NoArgs EXCEPT !.username = username, !.since = since,
                                 !.per_page = per_page, !.page = page], srv)

Users_get_users_user_id(c) ==
    /\ pc[c] = "idle"
    /\ Invoke(c, "Users::get_users_user_id", "get", users_id_url, NoBody, NoArgs, 1)

Users_delete_users_id(c) ==
    /\ pc[c] = "idle"
    /\ Invoke(c, "Users::delete_users_id", "delete", users_id_url, NoBody, NoArgs, 1)

Users_patch_users_id(c) ==
    /\ pc[c] = "idle"
    /\ \E b \in BodyValues :
           InvokeWithBody(c, "Users::patch_users_id", "patch", users_id_url, to_vec(b),
                  [NoArgs EXCEPT !.body = b])

\* get_users with its three &str arguments drawn from strs
Users_get_users_with(c, strs) ==
    /\ pc[c] = "idle"
    /\ \E start \in strs, page_size \in PageSizeValues,
          department_id \in strs, location_id \in strs :
           Invoke(c, "Users::get_users", "get",
                  get_users_url(start, page_size, department_id, location_id), NoBody,
                  [NoArgs EXCEPT !.start = start, !.page_size = page_size,
                                 !.department_id = department_id,
                                 !.location_id = location_id], 1)

Users_get_users(c) == Users_get_users_with(c, StrValues)

Users_get_all_users(c) ==
    /\ pc[c] = "idle"
    /\ \E department_id \in StrValues, location_id \in StrValues, srv \in Servers :
           Invoke(c, "Users::get_all_users", "get_all_pages",
                  get_all_users_url(department_id, location_id), NoBody,
                  [NoArgs EXCEPT !.department_id = department_id,
                                 !.location_id = location_id], srv)

Users_post_users_deferred(c) ==
    /\ pc[c] = "idle"
    /\ \E b \in BodyValues :
           InvokeWithBody(c, "Users::post_users_deferred", "post", post_users_deferred_url,
                  to_vec(b), [NoArgs EXCEPT !.body = b])

Users_get_users_deferred_status_id(c) ==
    /\ pc[c] = "idle"
    /\ Invoke(c, "Users::get_users_deferred_status_id", "get",
              get_users_deferred_status_id_url, NoBody, NoArgs, 1)

(* ------------------------------ the client ---------------------------- *)

\* the configured cap on the page fetches of one get_all_pages call; it is
\* configured above the page count of every terminating server
PageCap == MaxServerPages + 1

\* the call of c completes with the client's result o, which the wrapper
\* turns into its own return value
Complete(c, o) ==
    /\ pc' = [pc EXCEPT ![c] = "done"]
    /\ call' = [call EXCEPT ![c].outcome = o]
    /\ result' = [result EXCEPT ![c] = WrapperReturn(call[c].w, o)]

\* one exchange of a single-request verb: a decoded value or a failure
Exchange(c, verb) ==
    /\ pc[c] = "sent"
    /\ call[c].verb = verb
    /\ \E o \in Responses(call[c]) \cup {Err(e) : e \in ErrKinds} : Complete(c, o)

Client_get(c) == Exchange(c, "get")
Client_post(c) == Exchange(c, "post")
Client_patch(c) == Exchange(c, "patch")
Client_put(c) == Exchange(c, "put")
Client_delete(c) == Exchange(c, "delete")

\* the exchange of the page requested last fails: the accumulation is dropped
PageFails(c) ==
    \E e \in ErrKinds : Complete(c, Err(e))

\* a plausible slip: the continuation is followed without counting fetches
PageArrivesUncapped(c) ==
    LET k == Len(call[c].requests)
        acc == call[c].acc \o PageItems(call[c].srv, k)
    IN IF HasNext(call[c].srv, k)
       THEN /\ call' = [call EXCEPT ![c].acc = acc, ![c].requests = Append(@, k + 1)]
            /\ UNCHANGED <<pc, result>>
       ELSE Complete(c, Ok(acc, ""))

\* the page requested last arrives and is decoded: its items are appended, and the
\* continuation indicator decides between the next fetch and the return; a
\* continuation on the page that reaches the cap ends the call with a
\* failure ("all pages or a clear failure")
PageArrives(c) ==
    LET k == Len(call[c].requests)
        acc == call[c].acc \o PageItems(call[c].srv, k)
    IN IF HasNext(call[c].srv, k)
       THEN IF k < PageCap
            THEN /\ call' = [call EXCEPT ![c].acc = acc,
                                         ![c].requests = Append(@, k + 1)]
                 /\ UNCHANGED <<pc, result>>
            ELSE Complete(c, Err("PageLimit"))
       ELSE Complete(c, Ok(acc, ""))

\* get_all_pages: one step per page exchange
Client_get_all_pages(c) ==
    /\ pc[c] = "sent"
    /\ call[c].verb = "get_all_pages"
    /\ (PageFails(c) \/ PageArrives(c))

\* the caller takes the returned value; nothing of the call is kept by the
\* Gists or Users value, whose only field is the client handle
Return(c) ==
    /\ pc[c] = "done"
    /\ pc' = [pc EXCEPT ![c] = "idle"]
    /\ call' = [call EXCEPT ![c] = NoCall]
    /\ result' = [result EXCEPT ![c] = NoResult]

Next ==
    \E c \in Callers :
        \/ Gists_list(c)
        \/ Gists_create(c)
        \/ Gists_list_public(c)
        \/ Gists_list_starred(c)
        \/ Gists_get(c)
        \/ Gists_delete(c)
        \/ Gists_update(c)
        \/ Gists_list_comments(c)
        \/ Gists_create_comment(c)
        \/ Gists_get_comment(c)
        \/ Gists_delete_comment(c)
        \/ Gists_update_comment(c)
        \/ Gists_list_commits(c)
        \/ Gists_list_forks(c)
        \/ Gists_fork(c)
        \/ Gists_check_is_starred(c)
        \/ Gists_star(c)
        \/ Gists_unstar(c)
        \/ Gists_get_revision(c)
        \/ Gists_list_for_user(c)
        \/ Users_get_users_user_id(c)
        \/ Users_delete_users_id(c)
        \/ Users_patch_users_id(c)
        \/ Users_get_users(c)
        \/ Users_get_all_users(c)
        \/ Users_post_users_deferred(c)
        \/ Users_get_users_deferred_status_id(c)
        \/ Client_get(c)
        \/ Client_post(c)
        \/ Client_patch(c)
        \/ Client_put(c)
        \/ Client_delete(c)
        \/ Client_get_all_pages(c)
        \/ Return(c)

Spec == Init /\ [][Next]_vars

(* ------------------------- concurrent callers ------------------------- *)

\* two independent callers sharing one Gists value and one Users value
ConcCallers == {"c1", "c2"}

InitConc == /\ pc = [c \in ConcCallers |-> "idle"]
            /\ call = [c \in ConcCallers |-> NoCall]
            /\ result = [c \in ConcCallers |-> NoResult]

\* &str values either of the two callers hands to get_users: absent, plain,
\* and a character with a meaning in URLs
ConcStrValues == {<<>>, <<"x">>, <<"?">>}

\* either caller starts a call, or the client or the return of a call in
\* flight takes a step, in any order
NextConc ==
    \E c \in ConcCallers :
        \/ Users_get_users_with(c, ConcStrValues)
        \/ Gists_list(c)
        \/ Gists_create(c)
        \/ Users_get_users_user_id(c)
        \/ Users_patch_users_id(c)
        \/ Client_get(c)
        \/ Client_post(c)
        \/ Client_patch(c)
        \/ Client_get_all_pages(c)
        \/ Return(c)

SpecConc == InitConc /\ [][NextConc]_vars

(* ------------------------ reading a URL back -------------------------- *)

RECURSIVE IndexOf(_, _, _)
\* the first position at or after i where ch stands in s, 0 when there is none
IndexOf(s, ch, i) == IF i > Len(s) THEN 0
                     ELSE IF s[i] = ch THEN i ELSE IndexOf(s, ch, i + 1)

\* the part of a URL before its first '?'
PathPart(url) == LET q == IndexOf(url, "?", 1)
                 IN IF q = 0 THEN url ELSE SubSeq(url, 1, q - 1)

\* the part of a URL after its first '?'
QueryPart(url) == LET q == IndexOf(url, "?", 1)
                  IN IF q = 0 THEN <<>> ELSE SubSeq(url, q + 1, Len(url))

RECURSIVE Split(_, _)
\* the pieces of s between occurrences of ch, empty pieces kept
Split(s, ch) == LET i == IndexOf(s, ch, 1)
                IN IF i = 0 THEN <<s>>
                   ELSE <<SubSeq(s, 1, i - 1)>> \o Split(SubSeq(s, i + 1, Len(s)), ch)

\* the key=value pairs of a query string
Pairs(q) == IF q = <<>> THEN <<>> ELSE Split(q, "&")

KeyOf(pair) == LET e == IndexOf(pair, "=", 1)
               IN IF e = 0 THEN pair ELSE SubSeq(pair, 1, e - 1)

ValueOf(pair) == LET e == IndexOf(pair, "=", 1)
                 IN IF e = 0 THEN <<>> ELSE SubSeq(pair, e + 1, Len(pair))

Keys(q) == [i \in 1..Len(Pairs(q)) |-> KeyOf(Pairs(q)[i])]

Contains(s, sub) == \E i \in 1..(Len(s) - Len(sub) + 1) : SubSeq(s, i, i + Len(sub) - 1) = sub

Reserved == {"/", "?", "#", " "}

HexValue(ch) == CASE ch = "0" -> 0 [] ch = "1" -> 1 [] ch = "2" -> 2 [] ch = "3" -> 3
                  [] ch = "4" -> 4 [] ch = "5" -> 5 [] ch = "6" -> 6 [] ch = "7" -> 7
                  [] ch = "8" -> 8 [] ch = "9" -> 9 [] ch = "A" -> 10 [] ch = "B" -> 11
                  [] ch = "C" -> 12 [] ch = "D" -> 13 [] ch = "E" -> 14 [] ch = "F" -> 15
                  [] OTHER -> 16

\* the ASCII character of a code, for the codes of the reserved characters
AsciiChar(n) == CASE n = 32 -> " " [] n = 35 -> "#" [] n = 47 -> "/" [] n = 63 -> "?"
                  [] OTHER -> "\\"

RECURSIVE percent_decode(_)
\* what a server reads from a percent-encoded path segment
percent_decode(s) ==
    IF s = <<>> THEN <<>>
    ELSE IF Head(s) = "%" /\ Len(s) >= 3
    THEN <<AsciiChar(16 * HexValue(s[2]) + HexValue(s[3]))>>
         \o percent_decode(SubSeq(s, 4, Len(s)))
    ELSE <<Head(s)>> \o percent_decode(Tail(s))

(* ----------------------- documented endpoints ------------------------- *)

Lit(text) == [id |-> "", text |-> text]
Id(name) == [id |-> name, text |-> <<>>]

\* wrappers whose documented endpoint has identifier segments
GistsIdWrappers == {"Gists::get", "Gists::delete", "Gists::update", "Gists::list_comments",
                    "Gists::create_comment", "Gists::get_comment", "Gists::delete_comment",
                    "Gists::update_comment", "Gists::list_commits", "Gists::list_forks",
                    "Gists::fork", "Gists::check_is_starred", "Gists::star", "Gists::unstar",
                    "Gists::get_revision", "Gists::list_for_user"}

\* the path segments of the endpoint each doc comment names
Endpoint(w) ==
    CASE w \in {"Gists::get", "Gists::delete", "Gists::update"} ->
           <<Lit(<<"g","i","s","t","s">>), Id("gist_id")>>
      [] w \in {"Gists::list_comments", "Gists::create_comment"} ->
           <<Lit(<<"g","i","s","t","s">>), Id("gist_id"), Lit(<<"c","o","m","m","e","n","t","s">>)>>
      [] w \in {"Gists::get_comment", "Gists::delete_comment", "Gists::update_comment"} ->
           <<Lit(<<"g","i","s","t","s">>), Id("gist_id"), Lit(<<"c","o","m","m","e","n","t","s">>), Id("comment_id")>>
      [] w = "Gists::list_commits" ->
           <<Lit(<<"g","i","s","t","s">>), Id("gist_id"), Lit(<<"c","o","m","m","i","t","s">>)>>
      [] w \in {"Gists::list_forks", "Gists::fork"} ->
           <<Lit(<<"g","i","s","t","s">>), Id("gist_id"), Lit(<<"f","o","r","k","s">>)>>
      [] w \in {"Gists::check_is_starred", "Gists::star", "Gists::unstar"} ->
           <<Lit(<<"g","i","s","t","s">>), Id("gist_id"), Lit(<<"s","t","a","r">>)>>
      [] w = "Gists::get_revision" ->
           <<Lit(<<"g","i","s","t","s">>), Id("gist_id"), Id("sha")>>
      [] w = "Gists::list_for_user" ->
           <<Lit(<<"u","s","e","r","s">>), Id("username"), Lit(<<"g","i","s","t","s">>)>>

\* the value a call supplies for an identifier, as the string the wrapper
\* encodes (x.to_string())
ArgString(args, name) ==
    CASE name = "gist_id" -> args.gist_id
      [] name = "comment_id" -> FormatInt(args.comment_id)
      [] name = "sha" -> args.sha
      [] name = "username" -> args.username

Range(s) == {s[i] : i \in 1..Len(s)}

(* ------------------------------- claims ------------------------------- *)

\* C1: whenever the client's call failed, the wrapper returns that failure
\* as its Err value: no panic, no swallowed failure, no default value.
C1_FailureReturnedAsErr ==
    \A c \in Callers :
        (pc[c] = "done" /\ call[c].outcome.kind = "Err")
            => result[c] = Err(call[c].outcome.err)

\* C2: in every URL a Gists wrapper with identifier segments hands to the
\* client, the path splits at '/' into exactly the documented segments; the
\* literal segments are the template's own text, and every identifier
\* segment holds no raw '/', '?', '#' or space and decodes to the value given.
C2_IdentifiersEncoded ==
    \A c \in Callers :
        (pc[c] # "idle" /\ call[c].w \in GistsIdWrappers) =>
            LET segs == Split(PathPart(call[c].url), "/")
                t == Endpoint(call[c].w)
            IN /\ Len(segs) = Len(t) + 1
               /\ segs[1] = <<>>
               /\ \A i \in 1..Len(t) :
                     IF t[i].id = ""
                     THEN segs[i + 1] = t[i].text
                     ELSE /\ Range(segs[i + 1]) \cap Reserved = {}
                          /\ percent_decode(segs[i + 1]) = ArgString(call[c].args, t[i].id)

\* a revision is requested with reserved characters in both identifiers
C2_Witness ==
    \E c \in Callers :
        /\ pc[c] = "sent"
        /\ call[c].w = "Gists::get_revision"
        /\ "/" \in Range(call[c].args.sha)
        /\ Range(call[c].args.gist_id) \cap {"?", "#", " "} # {}

\* C3: no URL handed to the client holds an unsubstituted placeholder.
C3_NoPlaceholderSent ==
    \A c \in Callers :
        pc[c] # "idle" => ~Contains(call[c].url, <<"<","i","d",">">>)

\* the string query parameters of the two Users list wrappers
StringParams(w) == IF w = "Users::get_users"
                   THEN {"start", "department_id", "location_id"}
                   ELSE {"department_id", "location_id"}

KeyText(k) == CASE k = "start" -> <<"s","t","a","r","t">>
                [] k = "department_id" -> <<"d","e","p","a","r","t","m","e","n","t","_","i","d">>
                [] k = "location_id" -> <<"l","o","c","a","t","i","o","n","_","i","d">>
                [] k = "page_size" -> <<"p","a","g","e","_","s","i","z","e">>
                [] k = "page" -> <<"p","a","g","e">>
                [] k = "per_page" -> <<"p","e","r","_","p","a","g","e">>
                [] k = "since" -> <<"s","i","n","c","e">>

ParamValue(args, k) == CASE k = "start" -> args.start
                         [] k = "department_id" -> args.department_id
                         [] k = "location_id" -> args.location_id

UpTo(n) == [i \in 1..n |-> i]

\* C5: a paginated call requests the pages 1, 2, ... in order, each once;
\* against a server that serves N pages, when no exchange fails, it returns
\* the items of the N pages in page order after exactly N requests.
C5_AllPagesInOrder ==
    \A c \in Callers :
        (pc[c] # "idle" /\ call[c].w \in PagedWrappers) =>
            /\ call[c].requests = UpTo(Len(call[c].requests))
            /\ (pc[c] = "done" /\ call[c].srv # 0 /\ call[c].outcome.err \notin ErrKinds) =>
                  /\ result[c] = Ok(AllItems(call[c].srv, call[c].srv), "")
                  /\ call[c].requests = UpTo(call[c].srv)

\* a list call against a server with the most pages has returned them all
C5_Witness ==
    \E c \in Callers :
        /\ pc[c] = "done"
        /\ call[c].w = "Gists::list"
        /\ call[c].srv = MaxServerPages
        /\ result[c].kind = "Ok"
        /\ Len(result[c].val) = 2 * MaxServerPages - 1

\* C6: a paginated call never issues more than the configured number of
\* page requests, and against a server that always sends a continuation
\* indicator it ends (with a failure) once that many pages were fetched.
C6_PageFetchesBounded ==
    \A c \in Callers :
        (pc[c] # "idle" /\ call[c].w \in PagedWrappers) =>
            /\ Len(call[c].requests) <= PageCap
            /\ (pc[c] = "sent" /\ Len(call[c].requests) = PageCap) =>
                  ~ENABLED (Client_get_all_pages(c) /\ pc'[c] = "sent")

\* a call against the endless server has ended at the cap
C6_Witness ==
    \E c \in Callers :
        /\ pc[c] = "done"
        /\ call[c].w = "Gists::list_comments"
        /\ call[c].srv = 0
        /\ Len(call[c].requests) = PageCap
        /\ result[c] = Err("PageLimit")

\* C7: when the client's get_all_pages fails, after any number of pages, the
\* list wrapper returns that failure and no items; a list wrapper that
\* returns Ok returns the items of all pages of the server.
C7_AllOrNothing ==
    \A c \in Callers :
        (pc[c] = "done" /\ call[c].w \in PagedWrappers) =>
            /\ call[c].outcome.kind = "Err" =>
                  /\ result[c].kind = "Err"
                  /\ result[c].err = call[c].outcome.err
                  /\ result[c].val = <<>>
            /\ result[c].kind = "Ok" =>
                  /\ call[c].srv # 0
                  /\ result[c].val = AllItems(call[c].srv, call[c].srv)
            /\ result[c].kind \in {"Ok", "Err"}

\* a page exchange failed after an earlier page had been accumulated
C7_Witness ==
    \E c \in Callers :
        /\ pc[c] = "done"
        /\ call[c].w \in {"Gists::list_public", "Users::get_all_users"}
        /\ Len(call[c].requests) >= 2
        /\ call[c].acc # <<>>
        /\ call[c].outcome.err \in ErrKinds
        /\ result[c].kind = "Err"

\* C8: star hands an explicit empty payload to the client's put.
C8_StarSendsEmptyPayload ==
    \A c \in Callers :
        (pc[c] # "idle" /\ call[c].w = "Gists::star") => call[c].body = SomeBody(<<>>)

\* wrappers that take the timestamp parameter since
SinceWrappers == {"Gists::list", "Gists::list_public", "Gists::list_starred",
                  "Gists::list_for_user"}

\* the form the doc comments of since name: YYYY-MM-DDTHH:MM:SSZ, the year
\* written as ISO 8601 writes it (signed outside 0..9999)
Iso8601(t) == FormatYear(t.year) \o <<"-">> \o Pad2(t.month) \o <<"-">> \o Pad2(t.day) \o <<"T">>
              \o Pad2(t.hour) \o <<":">> \o Pad2(t.min) \o <<":">> \o Pad2(t.sec) \o <<"Z">>

DecimalDigits == {"0", "1", "2", "3", "4", "5", "6", "7", "8", "9"}

RECURSIVE ParseNat(_)
\* the number a string of decimal digits denotes
ParseNat(s) == IF s = <<>> THEN 0
               ELSE 10 * ParseNat(SubSeq(s, 1, Len(s) - 1)) + HexValue(s[Len(s)])

\* text is the plain decimal form of i: an optional sign, then digits only
IsDecimalOf(text, i) ==
    LET body == IF text # <<>> /\ Head(text) = "-" THEN Tail(text) ELSE text
    IN /\ body # <<>>
       /\ Range(body) \subseteq DecimalDigits
       /\ (IF text # <<>> /\ Head(text) = "-" THEN 0 - ParseNat(body) ELSE ParseNat(body)) = i

\* the value of the first pair of query q whose key is k
QueryValue(q, k) ==
    LET ps == Pairs(q)
        at == {i \in 1..Len(ps) : KeyOf(ps[i]) = KeyText(k)}
    IN IF at = {} THEN <<>> ELSE ValueOf(ps[CHOOSE i \in at : \A j \in at : i <= j])

\* C9: in the URL of every wrapper that takes since, the timestamp is
\* rendered as YYYY-MM-DDTHH:MM:SSZ and page and per_page as plain decimal
\* integers.
C9_CanonicalRendering ==
    \A c \in Callers :
        (pc[c] # "idle" /\ call[c].w \in SinceWrappers) =>
            LET q == QueryPart(call[c].url)
            IN /\ QueryValue(q, "since") = Iso8601(call[c].args.since)
               /\ IsDecimalOf(QueryValue(q, "page"), call[c].args.page)
               /\ IsDecimalOf(QueryValue(q, "per_page"), call[c].args.per_page)

\* the keys get_users must emit for its arguments, in the fixed order
ExpectedUsersKeys(args) ==
    (IF args.department_id # <<>> THEN <<<<"d","e","p","a","r","t","m","e","n","t","_","i","d">>>> ELSE <<>>)
    \o (IF args.location_id # <<>> THEN <<<<"l","o","c","a","t","i","o","n","_","i","d">>>> ELSE <<>>)
    \o <<<<"p","a","g","e","_","s","i","z","e">>>>
    \o (IF args.start # <<>> THEN <<<<"s","t","a","r","t">>>> ELSE <<>>)

\* C10: the query of get_users holds the present parameters in the order
\* department_id, location_id, page_size, start, separated by single '&'
\* with none leading or trailing; the Gists list wrappers emit page,
\* per_page and (where taken) since in that order.
C10_FixedParameterOrder ==
    \A c \in Callers :
        pc[c] # "idle" =>
            LET q == QueryPart(call[c].url)
            IN /\ call[c].w = "Users::get_users" =>
                     Keys(q) = ExpectedUsersKeys(call[c].args)
               /\ call[c].w \in SinceWrappers =>
                     Keys(q) = <<<<"p","a","g","e">>, <<"p","e","r","_","p","a","g","e">>, <<"s","i","n","c","e">>>>
               /\ call[c].w \in GistsListWrappers \ SinceWrappers =>
                     Keys(q) = <<<<"p","a","g","e">>, <<"p","e","r","_","p","a","g","e">>>>

\* get_users is called with every optional parameter present
C10_Witness ==
    \E c \in Callers :
        /\ pc[c] = "sent"
        /\ call[c].w = "Users::get_users"
        /\ call[c].args.start # <<>>
        /\ call[c].args.department_id # <<>>
        /\ call[c].args.location_id # <<>>

\* the pairs of query q whose key is k
PairsWithKey(q, k) == {i \in 1..Len(Pairs(q)) : KeyOf(Pairs(q)[i]) = KeyText(k)}

\* C11: get_users hands its URL to the client's get, which issues one
\* request; the URL always carries page_size (rendered from the argument),
\* also when start is empty, and a successful call returns the data of that
\* one envelope in the order received, whatever its pagination metadata
\* says.  get_all_users hands its URL to get_all_pages, sends neither
\* page_size nor start, and a successful call returns the items of all pages.
C11_OnePageVersusAllPages ==
    \A c \in Callers :
        /\ (pc[c] # "idle" /\ call[c].w = "Users::get_users") =>
              LET q == QueryPart(call[c].url)
              IN /\ call[c].verb = "get"
                 /\ call[c].requests = <<1>>
                 /\ Cardinality(PairsWithKey(q, "page_size")) = 1
                 /\ QueryValue(q, "page_size") = FormatF64(call[c].args.page_size)
                 /\ (pc[c] = "done" /\ call[c].outcome.kind = "Ok") =>
                       result[c] = Ok(call[c].outcome.val, "")
        /\ (pc[c] # "idle" /\ call[c].w = "Users::get_all_users") =>
              LET q == QueryPart(call[c].url)
              IN /\ call[c].verb = "get_all_pages"
                 /\ PairsWithKey(q, "page_size") = {}
                 /\ PairsWithKey(q, "start") = {}
                 /\ ~Contains(q, <<"p","a","g","e","_","s","i","z","e">>)
                 /\ ~Contains(q, <<"s","t","a","r","t">>)
                 /\ (pc[c] = "done" /\ result[c].kind = "Ok") =>
                       /\ call[c].srv # 0
                       /\ result[c].val = AllItems(call[c].srv, call[c].srv)
                       /\ Len(call[c].requests) = call[c].srv

\* get_users, called without start, has returned the data of an envelope
\* that announces a further page
C11_WitnessGetUsers ==
    \E c \in Callers :
        /\ pc[c] = "done"
        /\ call[c].w = "Users::get_users"
        /\ call[c].args.start = <<>>
        /\ call[c].args.department_id # <<>>
        /\ call[c].outcome.meta = "next"
        /\ result[c] = Ok(<<2, 1>>, "")

\* the URL, body and client verb the wrappers of the concurrent callers
\* compute from the arguments of one call
OwnUrl(w, args) ==
    CASE w = "Gists::list" -> list_url(args.since, args.per_page, args.page)
      [] w = "Gists::create" -> create_url
      [] w = "Users::get_users_user_id" -> users_id_url
      [] w = "Users::patch_users_id" -> users_id_url
      [] w = "Users::get_users" ->
           get_users_url(args.start, args.page_size, args.department_id, args.location_id)

OwnBody(w, args) ==
    CASE w \in {"Gists::create", "Users::patch_users_id"} -> SomeBody(to_vec(args.body).bytes)
      [] w \in {"Gists::list", "Users::get_users_user_id", "Users::get_users"} -> NoBody

OwnVerb(w) ==
    CASE w = "Gists::list" -> "get_all_pages"
      [] w = "Gists::create" -> "post"
      [] w = "Users::get_users_user_id" -> "get"
      [] w = "Users::patch_users_id" -> "patch"
      [] w = "Users::get_users" -> "get"

\* what the client can produce for the call cl: a failure, the decoded value
\* of its one exchange, or all pages of the server it talks to
OwnOutcome(cl, o) ==
    \/ o.kind = "Err"
    \/ /\ cl.verb = "get_all_pages"
       /\ cl.srv # 0
       /\ o = Ok(AllItems(cl.srv, cl.srv), "")
    \/ /\ cl.verb # "get_all_pages"
       /\ o \in Responses(cl)

\* C12: under every interleaving of two callers on the same Gists and Users
\* values, every invocation hands the client exactly one call, with the URL,
\* body and verb of its own arguments, and once it has returned its result
\* is the outcome the client produced for that call (for get_users, the
\* data of the envelope the client produced).
C12_OneOwnClientCall ==
    \A c \in ConcCallers :
        pc[c] # "idle" =>
            /\ call[c].url = OwnUrl(call[c].w, call[c].args)
            /\ call[c].body = OwnBody(call[c].w, call[c].args)
            /\ call[c].verb = OwnVerb(call[c].w)
            /\ call[c].requests = UpTo(Len(call[c].requests))
            /\ call[c].verb # "get_all_pages" => call[c].requests = <<1>>
            /\ pc[c] = "sent" => result[c] = NoResult
            /\ pc[c] = "done" =>
                  /\ OwnOutcome(call[c], call[c].outcome)
                  /\ IF call[c].w = "Users::get_users" /\ call[c].outcome.kind = "Ok"
                     THEN result[c] = Ok(call[c].outcome.val, "")
                     ELSE result[c] = call[c].outcome

\* a step of one caller's call leaves every other caller's call untouched
OthersUntouched ==
    \A c \in ConcCallers :
        (pc'[c] # pc[c] \/ call'[c] # call[c] \/ result'[c] # result[c]) =>
            \A d \in ConcCallers \ {c} :
                pc'[d] = pc[d] /\ call'[d] = call[d] /\ result'[d] = result[d]

\* whatever the order of the steps, none of them changes another caller's call
CallsDoNotInterfere == [][OthersUntouched]_vars

====
